---- MODULE Spec2Model ----
(***************************************************************************)
(* A model of PriorityQueue<K, V> (priorityqueue.hh): two queue objects,   *)
(* each owning a multiset ordered by key (pairs_by_K) and a multiset       *)
(* ordered by value (pairs_by_V) over pairs of shared pointers.            *)
(* A std::multiset is a sequence kept sorted by its comparator; an         *)
(* iterator is an index into it (Len + 1 is end()).  A pair of shared      *)
(* pointers is the record of the key and the value pointed to: the         *)
(* comparators, the accessors and operator== read nothing else of it.      *)
(* Where the storage pointed to matters (which pairs share it), the        *)
(* record holds its address as well (specification SpecTracked).           *)
(* Every step of an operation that runs code of K or V (copy, ==, <) or    *)
(* allocates may throw; the input "fail" of an action names the step that  *)
(* throws in that call ("none": nothing throws).                           *)
(***************************************************************************)
EXTENDS Integers, Sequences, FiniteSets, TLC

\* ------------------------------------------------------------------ bounds
\* the number of pairs the queues may hold together
MaxEntries == 3
\* the same, when the storage of the pairs is tracked
MaxTracked == 2

\* the keys and the values the calls are made with (K = V = int)
Keys == {1, 2}
Values == {1, 2}
\* the queue objects of the program
Queues == {1, 2}

\* tracked is fixed by the initial state: when TRUE, every pair carries the
\* address (cell) of the key and value its shared pointers point to, so that
\* two pairs pointing to the same storage can be told from two pairs
\* pointing to equal keys and values.
VARIABLES pairs_by_K, pairs_by_V, last, terminated, tracked

vars == <<pairs_by_K, pairs_by_V, last, terminated, tracked>>

\* ------------------------------------------------------ pairs, comparators
key_value_pair(k, v) == [first |-> k, second |-> v]

CompByFst(a, b) ==
    IF ~(a.first = b.first) THEN a.first < b.first ELSE a.second < b.second

\* (the tie on equal values broken the wrong way round)
CompBySndTieReversed(a, b) ==
    IF ~(a.second = b.second) THEN a.second < b.second ELSE b.first < a.first

\* (the values compared the wrong way round)
CompBySndDescending(a, b) ==
    IF ~(a.second = b.second) THEN b.second < a.second ELSE a.first < b.first

CompBySnd(a, b) ==
    IF ~(a.second = b.second) THEN a.second < b.second ELSE a.first < b.first

\* ------------------------------------------------------------ std::multiset
\* The comparison of a multiset whose Compare template argument is ord.
Compare(ord, a, b) ==
    IF ord = "CompByFst" THEN CompByFst(a, b) ELSE CompBySnd(a, b)

\* end(): the past-the-end iterator of the multiset s
End(s) == Len(s) + 1

\* (upper_bound called in place of lower_bound)
LowerBoundAfter(ord, s, x) ==
    1 + Cardinality({i \in 1..Len(s) : ~Compare(ord, x, s[i])})

\* lower_bound(x): the first element not ordered before x
LowerBound(ord, s, x) ==
    1 + Cardinality({i \in 1..Len(s) : Compare(ord, s[i], x)})

\* upper_bound(x): the first element ordered after x
UpperBound(ord, s, x) ==
    1 + Cardinality({i \in 1..Len(s) : ~Compare(ord, x, s[i])})

\* (begin() taken for the element looked up)
FindBegin(ord, s, x) == IF Len(s) = 0 THEN {End(s)} ELSE {1}

\* find(x): an element equivalent to x (the standard leaves open which one
\* when several are), end() when there is none
Find(ord, s, x) ==
    LET eq == {i \in 1..Len(s) : ~Compare(ord, s[i], x) /\ ~Compare(ord, x, s[i])}
    IN  IF eq = {} THEN {End(s)} ELSE eq

\* (an insert that leaves out a pair the multiset holds an equivalent of, as
\* the insert of a std::set does)
MsInsertUnique(ord, s, x) ==
    IF Find(ord, s, x) # {End(s)} THEN s
    ELSE LET p == UpperBound(ord, s, x)
         IN  SubSeq(s, 1, p - 1) \o <<x>> \o SubSeq(s, p, Len(s))

\* insert(x): x goes at the upper bound of its equivalents
MsInsert(ord, s, x) ==
    LET p == UpperBound(ord, s, x)
    IN  SubSeq(s, 1, p - 1) \o <<x>> \o SubSeq(s, p, Len(s))

\* erase(iterator)
MsErase(s, i) == SubSeq(s, 1, i - 1) \o SubSeq(s, i + 1, Len(s))

\* (a range insert that skips a pair the multiset already holds, as a
\* std::set would)
RECURSIVE MsInsertRangeUnique(_, _, _, _)
MsInsertRangeUnique(ord, s, src, n) ==
    IF n = 0 THEN s
    ELSE LET t == MsInsertRangeUnique(ord, s, src, n - 1)
         IN  IF \E i \in 1..Len(t) : t[i] = src[n] THEN t
             ELSE MsInsert(ord, t, src[n])

\* insert(first, last): the first n elements of the range src, in order
RECURSIVE MsInsertRange(_, _, _, _)
MsInsertRange(ord, s, src, n) ==
    IF n = 0 THEN s
    ELSE MsInsert(ord, MsInsertRange(ord, s, src, n - 1), src[n])

\* ------------------------------------------------------- the queue's fields
\* a std::unique_ptr to a multiset: null, or owning the multiset ms
Null == [null |-> TRUE, ms |-> <<>>]
Own(s) == [null |-> FALSE, ms |-> s]

isValid(q) == ~pairs_by_K[q].null /\ ~pairs_by_V[q].null

size(q) == IF ~isValid(q) THEN 0 ELSE Len(pairs_by_K[q].ms)

empty(q) == size(q) = 0

\* the pairs all queues hold together (the model's bound is on this number)
TotalEntries ==
    LET n1 == Len(pairs_by_K[1].ms) n2 == Len(pairs_by_K[2].ms) IN n1 + n2

Bound == IF tracked THEN MaxTracked ELSE MaxEntries

\* the storage the pairs of the multisets of all queues point to
CellsIn(f) == UNION {{f[q].ms[i].cell : i \in 1..Len(f[q].ms)} : q \in Queues}

\* the address a new allocation gets: one that no pair of a queue points to
NewCell ==
    LET used == CellsIn(pairs_by_K) \cup CellsIn(pairs_by_V)
    IN  CHOOSE c \in 1..(Cardinality(used) + 1) :
          c \notin used /\ \A d \in 1..(c - 1) : d \in used

\* (a pair made to point to storage a queue holds already, when there is
\* some, whatever the key and the value stored there)
make_shared_pair_reusing(key, value) ==
    IF tracked
    THEN [first |-> key, second |-> value,
          cell |-> IF 1 \in CellsIn(pairs_by_K) THEN 1 ELSE NewCell]
    ELSE key_value_pair(key, value)

\* std::make_pair(std::make_shared<K>(key), std::make_shared<V>(value)): the
\* pair points to storage of its own
make_shared_pair(key, value) ==
    IF tracked
    THEN [first |-> key, second |-> value, cell |-> NewCell]
    ELSE key_value_pair(key, value)

\* Addresses matter only by which pairs point to the same storage: the
\* cells of fK and fV are numbered in the order in which the multisets of
\* the queues, taken one after the other, first point to them.
Renumbered(f, fK, fV) ==
    LET all == fK[1].ms \o fV[1].ms \o fK[2].ms \o fV[2].ms
        firstAt(c) == CHOOSE i \in 1..Len(all) :
                        all[i].cell = c /\ \A j \in 1..(i - 1) : all[j].cell # c
        rank(c) == Cardinality({all[j].cell : j \in 1..firstAt(c)})
    IN  [q \in Queues |->
           [null |-> f[q].null,
            ms   |-> [i \in 1..Len(f[q].ms) |->
                        [f[q].ms[i] EXCEPT !.cell = rank(f[q].ms[i].cell)]]]]

\* The fields of all queues become fK and fV.
Store(fK, fV) ==
    IF tracked
    THEN /\ pairs_by_K' = Renumbered(fK, fK, fV)
         /\ pairs_by_V' = Renumbered(fV, fK, fV)
    ELSE /\ pairs_by_K' = fK
         /\ pairs_by_V' = fV

\* What the last call was: the operation, the queue it was called on, how it
\* ended and the step that threw.  arg is what is kept of the arguments of
\* the call: the (key, value) a returned insert or changeValue was called
\* with, and the right operand of a comparison.  after is for the calls made
\* one after the other: a changeValue that returns right after a returned
\* insert on the same queue keeps the (key, value) of that insert.
Outcome(op, q, outcome, at) ==
    [op |-> op, q |-> q, outcome |-> outcome, at |-> at, arg |-> <<>>, after |-> <<>>]

WithArg(o, a) == [o EXCEPT !.arg = a]

WithAfter(o, a) == [o EXCEPT !.after = a]

Init ==
    /\ pairs_by_K = [q \in Queues |-> Own(<<>>)]
    /\ pairs_by_V = [q \in Queues |-> Own(<<>>)]
    /\ last = Outcome("construct", 1, "ok", "none")
    /\ terminated = FALSE
    /\ tracked = FALSE

\* ------------------------------------------------------------------ insert
\* The steps of insert that may throw.
InsertFails == {"alloc", "find", "insK", "insV"}

\* What a call leaves behind: the two multisets, the iterators insert saves
\* in inserted_K and inserted_V, and the step that threw ("none": returned).
Done(K, V, iK, iV, at) ==
    [K |-> K, V |-> V, inserted_K |-> iK, inserted_V |-> iV, at |-> at]

\* (a catch block that rethrows and erases nothing)
InsertRollbackNothing(K, iK) == K

\* (a catch block that erases begin() in place of inserted_K)
InsertRollbackBegin(K, iK) == MsErase(K, 1)

\* catch (...) of insert: the pair put into pairs_by_K is erased again
InsertRollback(K, iK) == MsErase(K, iK)

\* insert(key, value) on the multisets K and V: the set of results the call
\* can have when step fail throws.
insert(K, V, key, value, fail) ==
    IF fail = "alloc" THEN {Done(K, V, 0, 0, "alloc")}
    ELSE IF fail = "find" /\ Len(K) > 0 THEN {Done(K, V, 0, 0, "find")}
    ELSE
      LET to_find == make_shared_pair(key, value)
      IN  { LET \* the pair found is put in again, else the new one
                x  == IF pair_iterator # End(K) THEN K[pair_iterator] ELSE to_find
                iK == UpperBound("CompByFst", K, x)
                K1 == MsInsert("CompByFst", K, x)
                iV == UpperBound("CompBySnd", V, x)
                V1 == MsInsert("CompBySnd", V, x)
            IN  IF fail = "insK" THEN Done(K, V, 0, 0, "insK")
                ELSE IF fail = "insV" THEN Done(InsertRollback(K1, iK), V, iK, 0, "insV")
                ELSE Done(K1, V1, iK, iV, "none")
          : pair_iterator \in Find("CompByFst", K, to_find) }

ErrorOf(at) == IF at = "none" THEN "ok" ELSE "ElementError"

\* A null unique_ptr is dereferenced: the program does not go on.
Crash(op, q) ==
    /\ terminated' = TRUE
    /\ last' = Outcome(op, q, "crash", "none")
    /\ UNCHANGED <<pairs_by_K, pairs_by_V, tracked>>

\* The call throws before it changed anything.
Throw(op, q, outcome, at) ==
    /\ last' = Outcome(op, q, outcome, at)
    /\ UNCHANGED <<pairs_by_K, pairs_by_V, terminated, tracked>>

Insert(q, key, value, fail) ==
    /\ ~terminated
    /\ TotalEntries < Bound
    /\ IF fail = "alloc" THEN Throw("insert", q, "ElementError", "alloc")
       ELSE IF ~isValid(q) THEN Crash("insert", q)
       ELSE \E r \in insert(pairs_by_K[q].ms, pairs_by_V[q].ms, key, value, fail) :
              /\ Store([pairs_by_K EXCEPT ![q] = Own(r.K)],
                       [pairs_by_V EXCEPT ![q] = Own(r.V)])
              /\ last' = WithArg(Outcome("insert", q, ErrorOf(r.at), r.at),
                                  IF r.at = "none" THEN <<key, value>> ELSE <<>>)
              /\ UNCHANGED <<terminated, tracked>>

\* --------------------------------------- minValue, maxValue, minKey, maxKey
\* What a const accessor gives back: a value, or the exception it throws.
Returned(x) == [ex |-> "none", val |-> x]
Thrown(e) == [ex |-> e, val |-> 0]

minValue(q) ==
    IF empty(q) THEN Thrown("EmptyQueueError")
    ELSE Returned(pairs_by_V[q].ms[1].second)

maxValue(q) ==
    IF empty(q) THEN Thrown("EmptyQueueError")
    ELSE Returned(pairs_by_V[q].ms[Len(pairs_by_V[q].ms)].second)

minKey(q) ==
    IF empty(q) THEN Thrown("EmptyQueueError")
    ELSE Returned(pairs_by_V[q].ms[1].first)

\* (PQNotFoundEx thrown in place of PQEmptyEx)
maxKeyNotFoundEx(q) ==
    IF empty(q) THEN Thrown("KeyNotFoundError")
    ELSE Returned(pairs_by_V[q].ms[Len(pairs_by_V[q].ms)].first)

maxKey(q) ==
    IF empty(q) THEN Thrown("EmptyQueueError")
    ELSE Returned(pairs_by_V[q].ms[Len(pairs_by_V[q].ms)].first)

Accessors == {"minValue", "maxValue", "minKey", "maxKey"}

Access(name, q) ==
    CASE name = "minValue" -> minValue(q)
      [] name = "maxValue" -> maxValue(q)
      [] name = "minKey"   -> minKey(q)
      [] name = "maxKey"   -> maxKey(q)

\* A call of one of the four accessors.
Accessor(name, q) ==
    /\ ~terminated
    /\ last' = Outcome(name, q, IF Access(name, q).ex = "none" THEN "ok" ELSE Access(name, q).ex, "none")
    /\ UNCHANGED <<pairs_by_K, pairs_by_V, terminated, tracked>>

\* ------------------------------------------------------ deleteMin, deleteMax
\* The pair at to_delete1 of pairs_by_V goes, with the pair of pairs_by_K
\* that find gives for it.
DeleteAt(op, q, to_delete1, fail) ==
    LET K == pairs_by_K[q].ms
        V == pairs_by_V[q].ms
    IN  IF fail = "find" THEN Throw(op, q, "ElementError", "find")
        ELSE \E to_delete2 \in Find("CompByFst", K, V[to_delete1]) :
               IF to_delete2 = End(K) THEN Crash(op, q)
               ELSE /\ Store([pairs_by_K EXCEPT ![q] = Own(MsErase(K, to_delete2))],
                             [pairs_by_V EXCEPT ![q] = Own(MsErase(V, to_delete1))])
                    /\ last' = Outcome(op, q, "ok", "none")
                    /\ UNCHANGED <<terminated, tracked>>

DeleteMin(q, fail) ==
    /\ ~terminated
    /\ IF empty(q) THEN Throw("deleteMin", q, "ok", "none")
       ELSE DeleteAt("deleteMin", q, 1, fail)

DeleteMax(q, fail) ==
    /\ ~terminated
    /\ IF empty(q) THEN Throw("deleteMax", q, "ok", "none")
       ELSE DeleteAt("deleteMax", q, End(pairs_by_V[q].ms) - 1, fail)

\* -------------------------------------------------------------- changeValue
\* The steps of changeValue itself that may throw; those of the insert it
\* calls come on top.
ChangeFails == {"to_find", "lower_bound", "eq", "findK", "findV"}

\* (a catch block that erases the new pair from pairs_by_K alone)
ChangeRollbackKOnly(r) ==
    Done(MsErase(r.K, r.inserted_K), r.V, 0, 0, "find")

\* catch (...) of changeValue: what insert put in is erased from both
ChangeRollback(r) ==
    Done(MsErase(r.K, r.inserted_K), MsErase(r.V, r.inserted_V), 0, 0, "find")

\* (the saved iterators of the new pair are erased in place of the old pair)
ChangeCommitInserted(r, to_delete1, to_delete2) ==
    Done(MsErase(r.K, r.inserted_K), MsErase(r.V, r.inserted_V), 0, 0, "none")

\* (nothing is erased: the old pair stays beside the new one)
ChangeCommitKeepsOld(r, to_delete1, to_delete2) ==
    Done(r.K, r.V, 0, 0, "none")

\* the old pair is erased from both multisets
ChangeCommit(r, to_delete1, to_delete2) ==
    Done(MsErase(r.K, to_delete1), MsErase(r.V, to_delete2), 0, 0, "none")

ChangeValue(q, key, value, fail) ==
    /\ ~terminated
    /\ IF empty(q) \/ fail = "to_find"
       THEN \* make_shared<K>(key) and minValue() are evaluated in either order
            \E e \in {x \in {"ElementError", "EmptyQueueError"} :
                        /\ x = "ElementError" => fail = "to_find"
                        /\ x = "EmptyQueueError" => empty(q)} :
              Throw("changeValue", q, e, IF e = "ElementError" THEN "to_find" ELSE "none")
       ELSE
         LET K == pairs_by_K[q].ms
             V == pairs_by_V[q].ms
             to_find == key_value_pair(key, minValue(q).val)
             pair_iterator == LowerBound("CompByFst", K, to_find)
         IN  IF fail = "lower_bound" THEN Throw("changeValue", q, "ElementError", fail)
             ELSE IF pair_iterator = End(K) THEN Throw("changeValue", q, "KeyNotFoundError", "none")
             ELSE IF fail = "eq" THEN Throw("changeValue", q, "ElementError", fail)
             ELSE IF ~(K[pair_iterator].first = key) THEN Throw("changeValue", q, "KeyNotFoundError", "none")
             ELSE
               LET pair_to_delete == K[pair_iterator]
               IN  \E r \in insert(K, V, key, value, fail) :
                     IF r.at # "none" \/ fail \in {"findK", "findV"}
                     THEN LET u == IF r.at # "none" THEN r ELSE ChangeRollback(r)
                          IN  /\ Store([pairs_by_K EXCEPT ![q] = Own(u.K)],
                                       [pairs_by_V EXCEPT ![q] = Own(u.V)])
                              /\ last' = Outcome("changeValue", q, "ElementError", IF r.at # "none" THEN r.at ELSE fail)
                              /\ UNCHANGED <<terminated, tracked>>
                     ELSE \E to_delete1 \in Find("CompByFst", r.K, pair_to_delete),
                             to_delete2 \in Find("CompBySnd", r.V, pair_to_delete) :
                            IF to_delete1 = End(r.K) \/ to_delete2 = End(r.V)
                            THEN Crash("changeValue", q)
                            ELSE /\ last' = WithAfter(WithArg(Outcome("changeValue", q, "ok", "none"),
                                                               <<key, value>>),
                                                       IF last.op = "insert" /\ last.q = q
                                                       THEN last.arg ELSE <<>>)
                                 /\ Store([pairs_by_K EXCEPT ![q] = Own(ChangeCommit(r, to_delete1, to_delete2).K)],
                                          [pairs_by_V EXCEPT ![q] = Own(ChangeCommit(r, to_delete1, to_delete2).V)])
                                 /\ UNCHANGED <<terminated, tracked>>

\* ------------------------------------------------------- swap, clear, copy
\* std::swap of the two unique_ptrs of a and b
SwapPtrs(f, a, b) == [f EXCEPT ![a] = f[b], ![b] = f[a]]

Swap(a, b) ==
    /\ ~terminated
    /\ IF a # b
       THEN /\ Store(SwapPtrs(pairs_by_K, a, b),
                     SwapPtrs(pairs_by_V, a, b))
       ELSE UNCHANGED <<pairs_by_K, pairs_by_V>>
    /\ last' = Outcome("swap", a, "ok", "none")
    /\ UNCHANGED <<terminated, tracked>>

\* (a default-constructed queue in place of the copy)
CopyOfNothing(p) == Own(<<>>)

\* The copy constructor: each new multiset holds copies of the shared-pointer
\* pairs of the source, in the same order.
CopyOf(p) == Own(p.ms)

\* The steps of the copy constructor that may throw.
CopyFails == {"copyK", "copyV"}

\* operator=(const PriorityQueue&): copy and swap
CopyAssign(d, s, fail) ==
    /\ ~terminated
    /\ TotalEntries - Len(pairs_by_K[d].ms) + Len(pairs_by_K[s].ms) <= Bound
    /\ IF d = s THEN Throw("copyAssign", d, "ok", "none")
       ELSE IF ~isValid(s) THEN Crash("copyAssign", d)
       ELSE IF fail \in CopyFails THEN Throw("copyAssign", d, "ElementError", fail)
       ELSE /\ Store([pairs_by_K EXCEPT ![d] = CopyOf(pairs_by_K[s])],
                     [pairs_by_V EXCEPT ![d] = CopyOf(pairs_by_V[s])])
            /\ last' = Outcome("copyAssign", d, "ok", "none")
            /\ UNCHANGED <<terminated, tracked>>

\* (pairs_by_K moved alone)
MoveAssignKOnly(d, s) ==
    /\ ~terminated
    /\ IF d # s
       THEN /\ Store([pairs_by_K EXCEPT ![d] = pairs_by_K[s], ![s] = Null],
                     pairs_by_V)
       ELSE UNCHANGED <<pairs_by_K, pairs_by_V>>
    /\ last' = Outcome("moveAssign", d, "ok", "none")
    /\ UNCHANGED <<terminated, tracked>>

\* operator=(PriorityQueue&&): the unique_ptrs of s are moved into d
MoveAssign(d, s) ==
    /\ ~terminated
    /\ IF d # s
       THEN /\ Store([pairs_by_K EXCEPT ![d] = pairs_by_K[s], ![s] = Null],
                     [pairs_by_V EXCEPT ![d] = pairs_by_V[s], ![s] = Null])
       ELSE UNCHANGED <<pairs_by_K, pairs_by_V>>
    /\ last' = Outcome("moveAssign", d, "ok", "none")
    /\ UNCHANGED <<terminated, tracked>>

\* -------------------------------------------------------------------- merge
\* The steps of merge that may throw: the backup copy, the two range
\* inserts, and the allocation of the empty queue clear() swaps in.
MergeFails == CopyFails \cup {"insK", "insV", "clear"}

\* (a catch block that rethrows without the swap)
MergeRollbackNoSwap(cur, tmp) == cur

\* catch (...) of merge: swap(tmp) puts the backup copy back
MergeRollback(cur, tmp) == tmp

\* (a merge without the check for this == &queue, nothing throwing: the
\* pairs of queue are inserted and queue is cleared, also when it is this)
MergeNoSelfCheck(this, queue, fail, n) ==
    /\ ~terminated
    /\ fail = "none" /\ n = 0
    /\ 2 * Len(pairs_by_K[queue].ms) <= MaxEntries
    /\ isValid(this) /\ isValid(queue)
    /\ LET srcK == pairs_by_K[queue].ms
           srcV == pairs_by_V[queue].ms
           K1   == Own(MsInsertRange("CompByFst", pairs_by_K[this].ms, srcK, Len(srcK)))
           V1   == Own(MsInsertRange("CompBySnd", pairs_by_V[this].ms, srcV, Len(srcV)))
       IN  Store([pairs_by_K EXCEPT ![this] = K1, ![queue] = Own(<<>>)],
                 [pairs_by_V EXCEPT ![this] = V1, ![queue] = Own(<<>>)])
    /\ last' = Outcome("merge", this, "ok", "none")
    /\ UNCHANGED <<terminated, tracked>>

\* merge(queue) of this; n pairs are inserted by the range insert that throws.
Merge(this, queue, fail, n) ==
    /\ ~terminated
    /\ IF fail \in {"insK", "insV"} THEN n < Len(pairs_by_K[queue].ms) ELSE n = 0
    /\ IF this = queue THEN Throw("merge", this, "ok", "none")
       ELSE IF ~isValid(this) THEN Crash("merge", this)
       ELSE IF fail \in CopyFails THEN Throw("merge", this, "ElementError", fail)
       ELSE IF ~isValid(queue) THEN Crash("merge", this)
       ELSE
         LET tmpK == CopyOf(pairs_by_K[this])
             tmpV == CopyOf(pairs_by_V[this])
             srcK == pairs_by_K[queue].ms
             srcV == pairs_by_V[queue].ms
             nK   == IF fail = "insK" THEN n ELSE Len(srcK)
             nV   == IF fail = "insK" THEN 0 ELSE IF fail = "insV" THEN n ELSE Len(srcV)
             K1   == Own(MsInsertRange("CompByFst", pairs_by_K[this].ms, srcK, nK))
             V1   == Own(MsInsertRange("CompBySnd", pairs_by_V[this].ms, srcV, nV))
         IN  IF fail \in {"insK", "insV"}
             THEN /\ Store([pairs_by_K EXCEPT ![this] = MergeRollback(K1, tmpK)],
                           [pairs_by_V EXCEPT ![this] = MergeRollback(V1, tmpV)])
                  /\ last' = Outcome("merge", this, "ElementError", fail)
                  /\ UNCHANGED <<terminated, tracked>>
             ELSE IF fail = "clear"
             THEN \* clear() is noexcept: std::terminate
                  /\ Store([pairs_by_K EXCEPT ![this] = K1],
                           [pairs_by_V EXCEPT ![this] = V1])
                  /\ last' = Outcome("merge", this, "terminate", fail)
                  /\ terminated' = TRUE
                  /\ UNCHANGED tracked
             ELSE /\ Store([pairs_by_K EXCEPT ![this] = K1, ![queue] = Own(<<>>)],
                           [pairs_by_V EXCEPT ![this] = V1, ![queue] = Own(<<>>)])
                  /\ last' = Outcome("merge", this, "ok", "none")
                  /\ UNCHANGED <<terminated, tracked>>

Next ==
    \/ \E q \in Queues, key \in Keys, value \in Values, fail \in {"none"} \cup InsertFails :
         Insert(q, key, value, fail)
    \/ \E name \in Accessors, q \in Queues : Accessor(name, q)
    \/ \E q \in Queues, fail \in {"none", "find"} : DeleteMin(q, fail)
    \/ \E q \in Queues, fail \in {"none", "find"} : DeleteMax(q, fail)
    \/ \E q \in Queues, key \in Keys, value \in Values,
          fail \in {"none"} \cup ChangeFails \cup InsertFails :
         ChangeValue(q, key, value, fail)
    \/ \E this \in Queues, queue \in Queues, fail \in {"none"} \cup MergeFails,
          n \in 0..MaxEntries :
         Merge(this, queue, fail, n)
    \/ \E a \in Queues, b \in Queues : Swap(a, b)
    \/ \E d \in Queues, s \in Queues, fail \in {"none"} \cup CopyFails : CopyAssign(d, s, fail)
    \/ \E d \in Queues, s \in Queues : MoveAssign(d, s)

Spec == Init /\ [][Next]_vars

\* ------------------------------------------------------------- comparisons
\* the queues that are compared hold at most this many pairs each
MaxCompared == 3

\* (the loop of operator== comparing the keys alone)
RECURSIVE EqFromKeysOnly(_, _, _)
EqFromKeysOnly(A, B, i) ==
    IF i = End(A) THEN TRUE
    ELSE IF ~(A[i].first = B[i].first) THEN FALSE
    ELSE EqFromKeysOnly(A, B, i + 1)

\* The for loop of operator==, it1 and it2 both at position i of the
\* multisets A and B.
RECURSIVE EqFrom(_, _, _)
EqFrom(A, B, i) ==
    IF i = End(A) THEN TRUE
    ELSE IF ~(A[i].first = B[i].first /\ A[i].second = B[i].second) THEN FALSE
    ELSE EqFrom(A, B, i + 1)

operator_eq(lhs, rhs) ==
    IF size(lhs) = size(rhs)
    THEN IF size(lhs) = 0 THEN TRUE
         ELSE EqFrom(pairs_by_K[lhs].ms, pairs_by_K[rhs].ms, 1)
    ELSE FALSE

\* (the while loop of operator< without the comparison of the values)
RECURSIVE LtFromKeysOnly(_, _, _)
LtFromKeysOnly(A, B, i) ==
    IF i # End(A) /\ i # End(B)
    THEN IF ~(A[i].first = B[i].first) THEN A[i].first < B[i].first
         ELSE LtFromKeysOnly(A, B, i + 1)
    ELSE i = End(A) /\ i # End(B)

\* The while loop of operator<, it1 and it2 both at position i, and the
\* return after it.
RECURSIVE LtFrom(_, _, _)
LtFrom(A, B, i) ==
    IF i # End(A) /\ i # End(B)
    THEN IF ~(A[i].first = B[i].first) THEN A[i].first < B[i].first
         ELSE IF ~(A[i].second = B[i].second) THEN A[i].second < B[i].second
         ELSE LtFrom(A, B, i + 1)
    ELSE i = End(A) /\ i # End(B)

operator_lt(lhs, rhs) ==
    IF size(lhs) = 0 /\ size(rhs) = 0 THEN FALSE
    ELSE IF size(lhs) = 0 \/ size(rhs) = 0 THEN size(lhs) = 0
    ELSE LtFrom(pairs_by_K[lhs].ms, pairs_by_K[rhs].ms, 1)

operator_ne(lhs, rhs) == ~operator_eq(lhs, rhs)

operator_gt(lhs, rhs) == ~operator_eq(lhs, rhs) /\ ~operator_lt(lhs, rhs)

operator_le(lhs, rhs) == operator_eq(lhs, rhs) \/ operator_lt(lhs, rhs)

operator_ge(lhs, rhs) == ~operator_lt(lhs, rhs)

Comparisons == {"operator==", "operator<", "operator!=", "operator>", "operator<=", "operator>="}

Compared(name, lhs, rhs) ==
    CASE name = "operator==" -> operator_eq(lhs, rhs)
      [] name = "operator<"  -> operator_lt(lhs, rhs)
      [] name = "operator!=" -> operator_ne(lhs, rhs)
      [] name = "operator>"  -> operator_gt(lhs, rhs)
      [] name = "operator<=" -> operator_le(lhs, rhs)
      [] name = "operator>=" -> operator_ge(lhs, rhs)

\* A call of one of the six comparison operators on the queues lhs and rhs.
Comparison(name, lhs, rhs) ==
    /\ ~terminated
    /\ last' = WithArg(Outcome(name, lhs, IF Compared(name, lhs, rhs) THEN "true" ELSE "false", "none"),
                       <<rhs>>)
    /\ UNCHANGED <<pairs_by_K, pairs_by_V, terminated, tracked>>

\* The multisets a queue can come to hold by its inserts: the sequences of
\* at most MaxCompared pairs in the order of CompByFst.
SortedByK ==
    LET pairs == {key_value_pair(k, v) : k \in Keys, v \in Values}
    IN  {s \in UNION {[1..n -> pairs] : n \in 0..MaxCompared} :
           \A i \in 1..Len(s), j \in 1..Len(s) : i < j => ~CompByFst(s[j], s[i])}

\* The comparisons are made of any two queues: each is moved from, or holds
\* the pairs of some sequence of inserts in both multisets.
InitCompare ==
    /\ pairs_by_K \in [Queues -> {Null} \cup {Own(s) : s \in SortedByK}]
    /\ pairs_by_V = [q \in Queues |->
                       IF pairs_by_K[q].null THEN Null
                       ELSE Own(MsInsertRange("CompBySnd", <<>>, pairs_by_K[q].ms,
                                              Len(pairs_by_K[q].ms)))]
    /\ last = Outcome("construct", 1, "ok", "none")
    /\ terminated = FALSE
    /\ tracked = FALSE

NextCompare ==
    \E name \in Comparisons, lhs \in Queues, rhs \in Queues : Comparison(name, lhs, rhs)

SpecCompare == InitCompare /\ [][NextCompare]_vars

\* ----------------------------------------------------- the storage of pairs
\* The program with the storage of every pair tracked.
InitTracked ==
    /\ pairs_by_K = [q \in Queues |-> Own(<<>>)]
    /\ pairs_by_V = [q \in Queues |-> Own(<<>>)]
    /\ last = Outcome("construct", 1, "ok", "none")
    /\ terminated = FALSE
    /\ tracked = TRUE

SpecTracked == InitTracked /\ [][Next]_vars

\* ================================================================== claims
\* the number of pairs (k, v) in the multiset ms
Count(ms, k, v) ==
    Cardinality({i \in 1..Len(ms) : ms[i].first = k /\ ms[i].second = v})

\* the two multisets hold the same pairs, each as often
SamePairs(K, V) ==
    /\ Len(K) = Len(V)
    /\ \A k \in Keys, v \in Values : Count(K, k, v) = Count(V, k, v)

\* no field of any queue differs between the two states of a step
QueuesUnchanged == pairs_by_K' = pairs_by_K /\ pairs_by_V' = pairs_by_V

OtherQueue(q) == CHOOSE o \in Queues : o # q

\* C1: after every call, returned or thrown, pairs_by_K and pairs_by_V of
\* each queue hold the same multiset of (key, value) pairs and so have the
\* same size.
C1_IndexesAgree ==
    \A q \in Queues : SamePairs(pairs_by_K[q].ms, pairs_by_V[q].ms)

\* an insert whose insertion into pairs_by_V threw, on a queue that holds
\* pairs
C1_Witness ==
    /\ last.op = "insert" /\ last.outcome = "ElementError" /\ last.at = "insV"
    /\ size(last.q) >= 2

\* C2: an insert that throws, at whichever step, leaves both multisets of
\* every queue as they were before the call.
C2_InsertStrong ==
    [][(last'.op = "insert" /\ last'.outcome = "ElementError") => QueuesUnchanged]_vars

\* the insertion into pairs_by_V threw after the one into pairs_by_K was made,
\* on a queue with pairs of both keys
C2_Witness ==
    /\ last.op = "insert" /\ last.outcome = "ElementError" /\ last.at = "insV"
    /\ \E i, j \in 1..size(last.q) :
         pairs_by_K[last.q].ms[i].first # pairs_by_K[last.q].ms[j].first

\* C3: a changeValue that throws an error of K or V, in its own steps or in
\* the insert it calls, leaves both multisets of every queue as they were.
C3_ChangeValueStrong ==
    [][(last'.op = "changeValue" /\ last'.outcome = "ElementError") => QueuesUnchanged]_vars

\* looking the old pair up again threw, after the new pair was inserted
C3_Witness ==
    /\ last.op = "changeValue" /\ last.outcome = "ElementError"
    /\ last.at \in {"findK", "findV"}
    /\ size(last.q) >= 2

\* C4: a merge with another queue that throws (the backup copy, or a range
\* insert partway) leaves this and the other queue as they were.
C4_MergeStrong ==
    [][(last'.op = "merge" /\ last'.outcome = "ElementError") => QueuesUnchanged]_vars

\* the range insert into pairs_by_V threw, after the one into pairs_by_K was
\* done, with pairs in both queues
C4_Witness ==
    /\ last.op = "merge" /\ last.outcome = "ElementError" /\ last.at = "insV"
    /\ size(last.q) >= 1 /\ size(OtherQueue(last.q)) >= 2


\* the key is the key of no pair of the queue
KeyAbsent(q, key) ==
    \A i \in 1..Len(pairs_by_K[q].ms) : pairs_by_K[q].ms[i].first # key

\* C5: changeValue on a valid queue that holds no pair with the key, the
\* empty queue included, with no step of K or V throwing, ends in
\* KeyNotFoundError and changes no queue.
C5_AbsentKeyNotFound ==
    [][\A q \in Queues, key \in Keys, value \in Values :
         (/\ last'.op = "changeValue" /\ last'.q = q
          /\ isValid(q) /\ KeyAbsent(q, key) /\ ChangeValue(q, key, value, "none"))
           => (last'.outcome = "KeyNotFoundError" /\ QueuesUnchanged)]_vars

\* the multiset ms1 is ms less one pair (k, old) plus one pair (k, new)
Replaced(ms, ms1, k, old, new) ==
    /\ Count(ms, k, old) >= 1
    /\ Len(ms1) = Len(ms)
    /\ \A k2 \in Keys, v2 \in Values :
         Count(ms1, k2, v2) = Count(ms, k2, v2)
                              - (IF k2 = k /\ v2 = old THEN 1 ELSE 0)
                              + (IF k2 = k /\ v2 = new THEN 1 ELSE 0)

\* C6: a changeValue(key, value) that returns takes one pair (key, old) out
\* of both multisets of the queue and puts one pair (key, value) in: the
\* size and the number of every other pair stay, the other queue stays.
C6_ChangeValueReplacesOne ==
    [][\A q \in {last'.q} :
         (last'.op = "changeValue" /\ last'.outcome = "ok")
           => LET key   == last'.arg[1]
                  value == last'.arg[2]
              IN  /\ \E old \in Values :
                       /\ Replaced(pairs_by_K[q].ms, pairs_by_K'[q].ms, key, old, value)
                       /\ Replaced(pairs_by_V[q].ms, pairs_by_V'[q].ms, key, old, value)
                  /\ size(q)' = size(q)
                  /\ pairs_by_K'[OtherQueue(q)] = pairs_by_K[OtherQueue(q)]
                  /\ pairs_by_V'[OtherQueue(q)] = pairs_by_V[OtherQueue(q)]]_vars

\* a changeValue returned on a queue that holds one pair twice and a further
\* pair
C6_Witness ==
    /\ last.op = "changeValue" /\ last.outcome = "ok"
    /\ size(last.q) >= 3
    /\ \E k \in Keys, v \in Values : Count(pairs_by_K[last.q].ms, k, v) = 2

\* C7: after this.merge(queue) returns, this and queue being two valid
\* queues, queue is valid and empty and this holds every pair as often as
\* the two queues held it together, so its size is the sum of the two sizes.
C7_MergeUnion ==
    [][\A this \in Queues, queue \in Queues :
         (/\ last'.op = "merge" /\ last'.q = this
          /\ this # queue /\ isValid(this) /\ isValid(queue) /\ Merge(this, queue, "none", 0))
           => /\ last'.outcome = "ok"
              /\ isValid(queue)' /\ size(queue)' = 0
              /\ isValid(this)' /\ size(this)' = size(this) + size(queue)
              /\ SamePairs(pairs_by_K'[this].ms, pairs_by_V'[this].ms)
              /\ \A k \in Keys, v \in Values :
                   Count(pairs_by_K'[this].ms, k, v)
                     = Count(pairs_by_K[this].ms, k, v) + Count(pairs_by_K[queue].ms, k, v)]_vars

\* a merge returned, leaving the other queue empty and this with a pair it
\* holds twice and a further pair
C7_Witness ==
    /\ last.op = "merge" /\ last.outcome = "ok"
    /\ isValid(OtherQueue(last.q)) /\ size(OtherQueue(last.q)) = 0
    /\ size(last.q) = 3
    /\ \E k \in Keys, v \in Values : Count(pairs_by_K[last.q].ms, k, v) = 2

\* the pair e is the first (the last) of the pairs of ms in the order by
\* value, then key
IsMinPair(ms, e) ==
    \A i \in 1..Len(ms) :
      \/ e.second < ms[i].second
      \/ e.second = ms[i].second /\ e.first <= ms[i].first

IsMaxPair(ms, e) ==
    \A i \in 1..Len(ms) :
      \/ e.second > ms[i].second
      \/ e.second = ms[i].second /\ e.first >= ms[i].first

\* exactly the pair e went from both multisets of q, and nothing of the
\* other queue
RemovedOne(q, e) ==
    /\ size(q)' = size(q) - 1
    /\ \A k \in Keys, v \in Values :
         /\ Count(pairs_by_K'[q].ms, k, v)
              = Count(pairs_by_K[q].ms, k, v) - (IF e = key_value_pair(k, v) THEN 1 ELSE 0)
         /\ Count(pairs_by_V'[q].ms, k, v)
              = Count(pairs_by_V[q].ms, k, v) - (IF e = key_value_pair(k, v) THEN 1 ELSE 0)
    /\ pairs_by_K'[OtherQueue(q)] = pairs_by_K[OtherQueue(q)]
    /\ pairs_by_V'[OtherQueue(q)] = pairs_by_V[OtherQueue(q)]

\* C8: deleteMin (deleteMax) returns on an empty queue with nothing changed;
\* on a queue with pairs it takes exactly one pair, the first (the last) in
\* the order by value then key, out of both multisets; and when the lookup
\* in pairs_by_K throws, nothing is taken out.
C8_DeleteExtremal ==
    [][\A q \in {last'.q} \cap {r \in Queues : last'.op \in {"deleteMin", "deleteMax"}} :
         /\ (DeleteMin(q, "none") \/ DeleteMax(q, "none")) =>
              /\ last'.outcome = "ok"
              /\ empty(q) => QueuesUnchanged
         /\ (DeleteMin(q, "none") /\ ~empty(q)) =>
              \E i \in 1..Len(pairs_by_K[q].ms) :
                /\ IsMinPair(pairs_by_K[q].ms, pairs_by_K[q].ms[i])
                /\ RemovedOne(q, pairs_by_K[q].ms[i])
         /\ (DeleteMax(q, "none") /\ ~empty(q)) =>
              \E i \in 1..Len(pairs_by_K[q].ms) :
                /\ IsMaxPair(pairs_by_K[q].ms, pairs_by_K[q].ms[i])
                /\ RemovedOne(q, pairs_by_K[q].ms[i])
         /\ ((DeleteMin(q, "find") \/ DeleteMax(q, "find")) /\ ~empty(q)) =>
              /\ last'.outcome = "ElementError"
              /\ QueuesUnchanged]_vars

\* a deleteMax returned and left two pairs of different keys and values in
\* the queue: it had three
C8_Witness ==
    /\ last.op = "deleteMax" /\ last.outcome = "ok"
    /\ size(last.q) = 2
    /\ pairs_by_K[last.q].ms[1].first # pairs_by_K[last.q].ms[2].first
    /\ pairs_by_K[last.q].ms[1].second # pairs_by_K[last.q].ms[2].second

\* C9: on a queue with pairs, minValue() (maxValue()) is the smallest (the
\* largest) value of a pair held, and minKey() (maxKey()) the smallest (the
\* largest) key among the pairs holding that value.
C9_Extremes ==
    \A q \in Queues :
      ~empty(q) =>
        LET ms == pairs_by_K[q].ms
            vals == {ms[i].second : i \in 1..Len(ms)}
            lo == CHOOSE v \in vals : \A w \in vals : v <= w
            hi == CHOOSE v \in vals : \A w \in vals : v >= w
            loKeys == {ms[i].first : i \in {j \in 1..Len(ms) : ms[j].second = lo}}
            hiKeys == {ms[i].first : i \in {j \in 1..Len(ms) : ms[j].second = hi}}
        IN  /\ minValue(q) = Returned(lo)
            /\ maxValue(q) = Returned(hi)
            /\ minKey(q) = Returned(CHOOSE k \in loKeys : \A l \in loKeys : k <= l)
            /\ maxKey(q) = Returned(CHOOSE k \in hiKeys : \A l \in hiKeys : k >= l)

\* after a changeValue, a queue in which both keys hold the smallest value
\* and a third pair holds a larger one
C9_Witness ==
    /\ last.op = "changeValue" /\ last.outcome = "ok"
    /\ size(last.q) = 3
    /\ Count(pairs_by_K[last.q].ms, 1, 1) = 1
    /\ Count(pairs_by_K[last.q].ms, 2, 1) = 1

\* C10: each of the four accessors, called on a queue of size 0, throws
\* EmptyQueueError, and no call of an accessor changes a queue.
C10_AccessorsOnEmpty ==
    [][\A name \in Accessors, q \in Queues :
         (last'.op = name /\ last'.q = q /\ Accessor(name, q))
           => /\ QueuesUnchanged
              /\ size(q) = 0 => last'.outcome = "EmptyQueueError"
              /\ size(q) > 0 => last'.outcome = "ok"]_vars

\* maxKey threw on an empty queue while the other queue holds pairs
C10_Witness ==
    /\ last.op = "maxKey" /\ last.outcome = "EmptyQueueError"
    /\ isValid(last.q) /\ size(last.q) = 0
    /\ size(OtherQueue(last.q)) >= 1

\* the calls that end in an exception the caller can catch
Errors == {"ElementError", "EmptyQueueError", "KeyNotFoundError"}

\* C11: size() counts the pairs put in less the pairs taken out: an insert
\* that returns raises the size of its queue by one, also when the pair is
\* held already; a deleteMin or deleteMax lowers it by one on a queue with
\* pairs and leaves it on an empty one; a merge that returns adds the size
\* of the other queue, whose size becomes 0; a changeValue, an accessor and
\* every call that throws leave all sizes.
C11_SizeCounts ==
    [][\A q \in {last'.q} :
         LET o == OtherQueue(q)
         IN  /\ (last'.op = "insert" /\ last'.outcome = "ok")
                  => size(q)' = size(q) + 1 /\ size(o)' = size(o)
             /\ (last'.op \in {"deleteMin", "deleteMax"} /\ last'.outcome = "ok")
                  => /\ size(q)' = size(q) - (IF size(q) > 0 THEN 1 ELSE 0)
                     /\ size(o)' = size(o)
             /\ (last'.op = "merge" /\ last'.outcome = "ok" /\ Merge(q, o, "none", 0))
                  => size(q)' = size(q) + size(o) /\ size(o)' = 0
             /\ (last'.op \in Accessors \cup {"changeValue"} \/ last'.outcome \in Errors)
                  => size(q)' = size(q) /\ size(o)' = size(o)]_vars

\* an insert returned on a queue that now holds one pair three times
C11_Witness ==
    /\ last.op = "insert" /\ last.outcome = "ok"
    /\ size(last.q) = 3
    /\ \E k \in Keys, v \in Values : Count(pairs_by_K[last.q].ms, k, v) = 3

\* C12: on a queue with pairs minValue() is at most maxValue(), and the
\* minValue() read after a deleteMin that leaves pairs is at least the
\* minValue() read before it.
C12_MinBelowMax ==
    [][\A q \in Queues :
         /\ ~empty(q)' => minValue(q)'.val <= maxValue(q)'.val
         /\ (last'.op = "deleteMin" /\ last'.q = q /\ last'.outcome = "ok" /\ size(q) >= 2)
              => /\ minValue(q)'.ex = "none"
                 /\ minValue(q)'.val >= minValue(q).val]_vars

\* a deleteMin returned and raised the smallest value of its queue, which
\* still holds two different values
C12_Witness ==
    /\ last.op = "deleteMin" /\ last.outcome = "ok"
    /\ size(last.q) = 2
    /\ minValue(last.q).val = 2
    /\ \E k \in Keys : Count(pairs_by_K[last.q].ms, k, 2) = 2

\* the number of pairs with the key in the multiset ms
KeyCount(ms, key) == Cardinality({i \in 1..Len(ms) : ms[i].first = key})

\* C13 (as stated): insert(k, v) that returns, followed at once by
\* changeValue(k, v2) on the same queue, leaves no pair (k, v) and exactly
\* one pair (k, v2) in the queue, and minKey() is k when v2 is then the
\* smallest value.
C13_InsertThenChange ==
    [][\A q \in {last'.q}, k \in Keys, v \in Values, v2 \in Values :
         (/\ last'.op = "changeValue"
          /\ last.op = "insert" /\ last.q = q /\ last.arg = <<k, v>>
          /\ ChangeValue(q, k, v2, "none"))
           => /\ last'.outcome = "ok"
              /\ Count(pairs_by_K'[q].ms, k, v) = 0
              /\ Count(pairs_by_K'[q].ms, k, v2) = 1
              /\ minValue(q)' = Returned(v2) => minKey(q)' = Returned(k)]_vars

\* C13 (amended): when the queue held no pair with key k before the insert
\* and v2 differs from v, insert(k, v) followed at once by changeValue(k, v2)
\* leaves no pair (k, v) and exactly one pair (k, v2) in both multisets, and
\* minKey() is k when v2 is smaller than the value of every other pair.
C13_InsertThenChangeFreshKey ==
    [][\A q \in {last'.q}, k \in Keys, v \in Values, v2 \in Values :
         (/\ last'.op = "changeValue"
          /\ last.op = "insert" /\ last.q = q /\ last.arg = <<k, v>>
          /\ KeyCount(pairs_by_K[q].ms, k) = 1 /\ v2 # v
          /\ ChangeValue(q, k, v2, "none"))
           => /\ last'.outcome = "ok"
              /\ last'.arg = <<k, v2>> /\ last'.after = <<k, v>>
              /\ Count(pairs_by_K'[q].ms, k, v) = 0
              /\ Count(pairs_by_V'[q].ms, k, v) = 0
              /\ Count(pairs_by_K'[q].ms, k, v2) = 1
              /\ Count(pairs_by_V'[q].ms, k, v2) = 1
              /\ (\A i \in 1..Len(pairs_by_K'[q].ms) :
                    \/ pairs_by_K'[q].ms[i] = key_value_pair(k, v2)
                    \/ v2 < pairs_by_K'[q].ms[i].second)
                   => minKey(q)' = Returned(k)]_vars

\* insert(2, 2) then changeValue(2, 1) on a queue that held the pair (1, 2)
\* twice: the pair (2, 1) is now the first by value
C13_Witness ==
    /\ last.op = "changeValue" /\ last.outcome = "ok"
    /\ last.after = <<2, 2>> /\ last.arg = <<2, 1>>
    /\ size(last.q) = 3
    /\ Count(pairs_by_K[last.q].ms, 1, 2) = 2
    /\ Count(pairs_by_K[last.q].ms, 2, 1) = 1
    /\ minKey(last.q) = Returned(2)

\* the pairs a queue holds: none when it was moved from
Contents(q) == IF isValid(q) THEN pairs_by_K[q].ms ELSE <<>>

\* C14: a == b is true exactly when a and b hold every pair (key, value) as
\* often as each other; so two queues without pairs are equal, and a queue
\* equals itself.
C14_EqualIffSamePairs ==
    \A a \in Queues, b \in Queues :
      /\ operator_eq(a, b)
           <=> (\A k \in Keys, v \in Values :
                  Count(Contents(a), k, v) = Count(Contents(b), k, v))
      /\ (size(a) = 0 /\ size(b) = 0) => operator_eq(a, b)

\* operator== gave true for two different queues that hold one pair twice
\* and another pair once
C14_Witness ==
    /\ last.op = "operator==" /\ last.outcome = "true" /\ last.arg # <<last.q>>
    /\ size(last.q) = 3
    /\ \E k \in Keys, v \in Values : Count(pairs_by_K[last.q].ms, k, v) = 2

\* the pair a comes before the pair b: by the key, then by the value
PairLess(a, b) == a.first < b.first \/ (a.first = b.first /\ a.second < b.second)

\* the sequence A comes before B in the lexicographic order of their pairs:
\* at the first position where they differ A has ended, or has the pair
\* that comes first
LexLess(A, B) ==
    \E i \in 1..(Len(A) + 1) :
      /\ i <= Len(B)
      /\ \A j \in 1..(i - 1) : A[j] = B[j]
      /\ i = Len(A) + 1 \/ PairLess(A[i], B[i])

\* C15: a < b is the lexicographic order of the pairs of a and b in the
\* order of pairs_by_K, a strict total order: of a < b, a == b and b < a
\* exactly one is true; and a > b is b < a, a <= b is not b < a, a >= b is
\* not a < b, a != b is not a == b.
C15_LessIsLexicographic ==
    \A a \in Queues, b \in Queues :
      /\ operator_lt(a, b) <=> LexLess(Contents(a), Contents(b))
      /\ ~(operator_lt(a, b) /\ operator_lt(b, a))
      /\ ~(operator_lt(a, b) /\ operator_eq(a, b))
      /\ operator_lt(a, b) \/ operator_eq(a, b) \/ operator_lt(b, a)
      /\ operator_gt(a, b) <=> operator_lt(b, a)
      /\ operator_le(a, b) <=> ~operator_lt(b, a)
      /\ operator_ge(a, b) <=> ~operator_lt(a, b)
      /\ operator_ne(a, b) <=> ~operator_eq(a, b)

\* operator> gave true for a queue of three pairs and a queue of two pairs
\* that has the same first pair and differs in the value of the second
C15_Witness ==
    /\ last.op = "operator>" /\ last.outcome = "true" /\ last.arg # <<last.q>>
    /\ size(last.q) = 3 /\ size(OtherQueue(last.q)) = 2
    /\ pairs_by_K[last.q].ms[1] = pairs_by_K[OtherQueue(last.q)].ms[1]
    /\ pairs_by_K[last.q].ms[2].first = pairs_by_K[OtherQueue(last.q)].ms[2].first
    /\ pairs_by_K[last.q].ms[2].second > pairs_by_K[OtherQueue(last.q)].ms[2].second

\* the fields of queue q are as they were before the step
QueueUnchanged(q) == pairs_by_K'[q] = pairs_by_K[q] /\ pairs_by_V'[q] = pairs_by_V[q]

\* C16: a copy assignment d = s that returns, d and s two queues and s
\* valid, leaves s as it was and d valid with multisets of its own holding
\* the pairs of s, so that d == s; a copy assignment that throws leaves d
\* and s as they were; and an insert, deleteMin, deleteMax or changeValue on
\* one queue, whatever its outcome, changes nothing of the other queue.
C16_CopyEqualIndependent ==
    [][\A d \in {last'.q} :
         LET s == OtherQueue(d)
         IN  /\ (last'.op = "copyAssign" /\ isValid(s) /\ CopyAssign(d, s, "none"))
                  => /\ last'.outcome = "ok"
                     /\ isValid(d)'
                     /\ pairs_by_K'[d].ms = pairs_by_K[s].ms
                     /\ pairs_by_V'[d].ms = pairs_by_V[s].ms
                     /\ QueueUnchanged(s)
                     /\ operator_eq(d, s)' /\ operator_eq(s, d)'
             /\ (last'.op = "copyAssign" /\ last'.outcome = "ElementError")
                  => QueuesUnchanged
             /\ last'.op \in {"insert", "deleteMin", "deleteMax", "changeValue"}
                  => QueueUnchanged(s)]_vars

\* a copy assignment returned that put the one pair of the source in the
\* place of nothing, while the queues hold a pair each
C16_Witness ==
    /\ last.op = "copyAssign" /\ last.outcome = "ok"
    /\ size(last.q) = 1
    /\ pairs_by_K[last.q].ms = pairs_by_K[OtherQueue(last.q)].ms

\* C17: a move assignment d = std::move(s), d and s two queues and s valid,
\* returns and leaves d valid with the multisets s had, and s with both
\* unique_ptrs null, so that size() of s is 0 and empty() is true; the two
\* unique_ptrs of a queue are always null together; and a copy or move
\* assignment of a valid queue to a moved-from queue makes it valid, with
\* the pairs of that queue.
C17_MoveLeavesSourceInvalid ==
    [][/\ \A q \in Queues : pairs_by_K'[q].null = pairs_by_V'[q].null
       /\ \A d \in {last'.q} :
            LET s == OtherQueue(d)
            IN  /\ (last'.op = "moveAssign" /\ isValid(s) /\ MoveAssign(d, s))
                     => /\ last'.outcome = "ok"
                        /\ isValid(d)'
                        /\ pairs_by_K'[d] = pairs_by_K[s]
                        /\ pairs_by_V'[d] = pairs_by_V[s]
                        /\ ~isValid(s)'
                        /\ pairs_by_K'[s].null /\ pairs_by_V'[s].null
                        /\ size(s)' = 0 /\ empty(s)'
                /\ (last'.op = "copyAssign" /\ ~isValid(d) /\ isValid(s)
                    /\ CopyAssign(d, s, "none"))
                     => /\ last'.outcome = "ok"
                        /\ isValid(d)'
                        /\ pairs_by_K'[d].ms = pairs_by_K[s].ms
                        /\ pairs_by_V'[d].ms = pairs_by_V[s].ms]_vars

\* a move assignment returned that gave its queue three pairs and left the
\* other queue without its multisets
C17_Witness ==
    /\ last.op = "moveAssign" /\ last.outcome = "ok"
    /\ size(last.q) = 3
    /\ pairs_by_K[OtherQueue(last.q)].null /\ pairs_by_V[OtherQueue(last.q)].null

\* C18: a.merge(a), a.swap(a) and a = a return and leave every queue as it
\* was.
C18_SelfOperationsNoOp ==
    [][\A a \in {last'.q} :
         /\ (last'.op = "merge" /\ Merge(a, a, "none", 0))
              => last'.outcome = "ok" /\ QueuesUnchanged
         /\ (last'.op = "swap" /\ Swap(a, a))
              => last'.outcome = "ok" /\ QueuesUnchanged
         /\ (last'.op = "copyAssign" /\ CopyAssign(a, a, "none"))
              => last'.outcome = "ok" /\ QueuesUnchanged]_vars

\* a merge returned and both queues hold pairs: it was a merge of the queue
\* with itself
C18_Witness ==
    /\ last.op = "merge" /\ last.outcome = "ok"
    /\ size(last.q) = 2 /\ size(OtherQueue(last.q)) = 1

\* the smallest value among the pairs of ms with the key
MinValueOfKey(ms, key) ==
    LET vals == {ms[i].second : i \in {j \in 1..Len(ms) : ms[j].first = key}}
    IN  CHOOSE v \in vals : \A w \in vals : v <= w

\* C19: changeValue(key, value) on a queue that holds pairs with the key,
\* nothing throwing, replaces the pair with the smallest value among them,
\* which is the first of them in pairs_by_K: the lookup with the value of
\* minValue() stops at that pair and passes over no pair with the key.
C19_ChangeValueSmallestOfKey ==
    [][\A q \in {last'.q}, key \in Keys :
         (/\ last'.op = "changeValue" /\ last'.outcome # "ElementError"
          /\ isValid(q) /\ ~KeyAbsent(q, key))
           => LET K   == pairs_by_K[q].ms
                  old == MinValueOfKey(K, key)
                  \* where the lookup of changeValue(key, ...) stops
                  pair_iterator ==
                      LowerBound("CompByFst", K, key_value_pair(key, minValue(q).val))
              IN  /\ pair_iterator # End(K)
                  /\ K[pair_iterator].first = key
                  /\ \A j \in 1..(pair_iterator - 1) : K[j].first # key
                  /\ K[pair_iterator].second = old
                  /\ last'.outcome # "crash"
                  /\ (last'.outcome = "ok" /\ last'.arg[1] = key)
                       => /\ Replaced(K, pairs_by_K'[q].ms, key, old, last'.arg[2])
                          /\ Replaced(pairs_by_V[q].ms, pairs_by_V'[q].ms, key, old, last'.arg[2])]_vars

\* insert(2, 2) then changeValue(2, 2) on a queue that held the pairs (1, 1)
\* and (2, 1): of the two pairs with key 2 the pair (2, 1) was replaced
C19_Witness ==
    /\ last.op = "changeValue" /\ last.outcome = "ok"
    /\ last.after = <<2, 2>> /\ last.arg = <<2, 2>>
    /\ size(last.q) = 3
    /\ Count(pairs_by_K[last.q].ms, 1, 1) = 1
    /\ Count(pairs_by_K[last.q].ms, 2, 2) = 2

\* the storage the pairs of the two multisets of queue q point to
CellsOf(q) ==
    {pairs_by_K[q].ms[i].cell : i \in 1..Len(pairs_by_K[q].ms)}
      \cup {pairs_by_V[q].ms[i].cell : i \in 1..Len(pairs_by_V[q].ms)}

\* the storage that pairs of both queues point to
CrossShared == CellsOf(1) \cap CellsOf(2)

\* all pairs pointing to the same storage, in whichever multiset of whichever
\* queue, show the same key and value
SameStorageSameContents ==
    LET all == pairs_by_K[1].ms \o pairs_by_V[1].ms \o pairs_by_K[2].ms \o pairs_by_V[2].ms
    IN  \A i \in 1..Len(all), j \in 1..Len(all) :
          all[i].cell = all[j].cell => all[i] = all[j]

\* C20 (as stated): in every state the calls reach, the program running, no
\* storage of a key and value is pointed to from the multisets of two
\* queues, and storage shows one key and value to all pairs pointing to it.
C20_NoStorageAcrossQueues ==
    ~terminated => (CrossShared = {} /\ SameStorageSameContents)

\* C20 (amended): storage of a key and value comes to be pointed to from the
\* multisets of two queues by a copy only: a copy assignment that returns
\* leaves the target pointing to the very storage of the source, and no other
\* call raises the number of cells both queues point to; and storage shows
\* one key and value to all pairs pointing to it, in one queue or two, as
\* no call changes it in place.
C20_StorageSharedByCopyOnly ==
    [][~terminated' =>
         /\ SameStorageSameContents'
         /\ last'.op # "copyAssign" => Cardinality(CrossShared') <= Cardinality(CrossShared)
         /\ \A d \in {last'.q} :
              (/\ last'.op = "copyAssign" /\ isValid(OtherQueue(d))
               /\ CopyAssign(d, OtherQueue(d), "none"))
                => /\ pairs_by_K'[d] = pairs_by_K'[OtherQueue(d)]
                   /\ pairs_by_V'[d] = pairs_by_V'[OtherQueue(d)]
                   /\ CrossShared' = CellsOf(d)']_vars

\* a copy assignment returned and the pairs of both queues point to the same
\* storage
C20_Witness ==
    /\ tracked /\ ~terminated
    /\ last.op = "copyAssign" /\ last.outcome = "ok"
    /\ size(1) = 1 /\ size(2) = 1
    /\ CrossShared # {}

====
